---- MODULE Spec2Model ----
(***************************************************************************)
(* A model of the DMA-paced PWM engine of RPIO (source/c_pwm/pwm.c) and of *)
(* the hardware it programs: the per-channel sample array and control      *)
(* block program, the DMA engine that traverses it, the GPIO output latch, *)
(* the pacer, and the process (fatal errors, signals, shutdown).           *)
(*                                                                         *)
(* A sample word is modelled as the set of GPIO numbers whose bit is set.  *)
(* A library call is one action, except that shutdown and clear_channel    *)
(* are split at their udelay() calls, where the DMA engine runs and a      *)
(* signal may arrive.                                                      *)
(***************************************************************************)
EXTENDS Integers, Sequences, FiniteSets, TLC

(* Program constants *)
DMA_CHANNELS == 15
SUBCYCLE_TIME_US_MIN == 3000
DELAY_VIA_PWM == 0
DELAY_VIA_PCM == 1
PAGE_SIZE == 4096
INPUT == 1
OUTPUT == 0
HIGH == 1
LOW == 0
PUD_OFF == 0
PUD_DOWN == 1
PUD_UP == 2
MODE_UNKNOWN == -1
BOARD == 10
BCM == 11

(* Bounds of the model *)
MaxChannel == 2
MaxGpio == 1
MaxTick == 4
MaxCalls == 4

Channels == 0..MaxChannel
Gpios == 0..MaxGpio
StartArgs == (-1)..MaxTick
WidthArgs == 0..MaxTick
LayoutSetupArgs == {<<10, DELAY_VIA_PWM>>, <<40, DELAY_VIA_PCM>>}
LayoutSubcycleArgs == {2999, 3000, 20000}
\* a subcycle of six ticks of 1000 us, and pulses inside it
EdgeSubcycleArgs == {6000}
EdgeStartArgs == 0..2
EdgeWidthArgs == 1..3
WideStartArgs == (-1)..(MaxTick + 3)
WideWidthArgs == (-(MaxTick + 3))..MaxTick
SetupArgs == {<<1000, DELAY_VIA_PWM>>, <<2000, DELAY_VIA_PCM>>, <<5000, DELAY_VIA_PWM>>}
SubcycleArgs == {2000, 4000}
SetupEnvs == {"ok", "devmem_fail"}
ChannelEnvs == {"ok", "mmap_fail", "pagemap_fail", "devmem_fail"}
Signals == {"SIGTERM", "SIGKILL", "SIGCHLD"}

\* channel numbers outside the table channels[DMA_CHANNELS]
WildChannels == {-1, DMA_CHANNELS}

\* the BCM lines of the pin-mode table, int gpio_direction[54]
Lines == 0..53
\* arguments of the GPIO facet's calls
PyChannelArgs == {0, 3, 5}
PyModeArgs == {BOARD, BCM, 12}
PyDirectionArgs == {INPUT, OUTPUT, 2}
PyPudArgs == {PUD_OFF, PUD_UP}
PyInitialArgs == {-1, HIGH}
PyValueArgs == {LOW, HIGH}
PyWarningArgs == {0, 1}
\* what a read in front of the pin-mode table may find
PyJunkArgs == {-1, INPUT}
\* calls of one run of the GPIO facet alone
PinsMaxCalls == MaxCalls
ImportEnvs == {"devmem_fail", "malloc_fail", "mmap_fail", "ok"}
\* arguments of the PWM calls made next to the GPIO facet
PwmSetupArgs == {<<1000, DELAY_VIA_PWM>>}
PwmSubcycleArgs == {4000}
PwmWidthArgs == {2}
\* calls of one run of the two facets
PyMaxCalls == MaxCalls + 4

VARIABLES
    soft_fatal,           \* static int soft_fatal
    error_message,        \* static char error_message[256] (the message kind)
    stderr_msg,           \* last message fatal() wrote to standard error
    ret,                  \* return value of the last library call that returned
    _is_setup,            \* static uint8_t _is_setup
    pulse_width_incr_us,  \* static uint16_t pulse_width_incr_us
    delay_hw,             \* static int delay_hw
    gpio_setup,           \* static int gpio_setup (bitfield, as a set)
    handlers,             \* signals whose handler is terminate()
    blocked,              \* signals whose handler is running
    pacer,                \* PWM/PCM pacer hardware as programmed by init_hardware
    channels,             \* static struct channel channels[DMA_CHANNELS]
    sample,               \* per channel: the sample words of the arena
    cb,                   \* per channel: the control blocks of the arena
    dma_cs,               \* per channel: the DMA engine's CS register
    dma_at,               \* per channel: index of the control block the engine is at
    dma_latch,            \* per channel: word and destination read but not yet written
    dma_stores,           \* per channel: the stores of init_ctrl_data, in program order
    gpio_fsel,            \* GPIO function select (per line)
    gpio_level,           \* GPIO output latch: the lines that are high
    pc,                   \* where the process is
    cc_ch, cc_caller,     \* clear_channel: its argument and its caller
    sd_i, sd_then,        \* shutdown: loop index, and what follows it
    exit_via, exit_status,\* how the process ended
    gpio_direction,       \* py_gpio.c: static int gpio_direction[54]
    gpio_mode,            \* py_gpio.c: static int gpio_mode
    revision_int,         \* py_gpio.c: static int revision_int
    gpio_pull,            \* GPIO pull-up/down state (per line)
    py_err,               \* the Python exception the last GPIO call raised
    py_calls,             \* the last two calls made to the GPIO facet
    gpio_warnings,        \* py_gpio.c: static int gpio_warnings
    py_configured,        \* history: the lines a setup call has configured
    gpio_map,             \* c_gpio.c: static volatile uint32_t *gpio_map
    module_result,        \* what module_setup returned at import
    ncall                 \* model budget: library calls made

vars == <<soft_fatal, error_message, stderr_msg, ret, _is_setup,
          pulse_width_incr_us, delay_hw, gpio_setup, handlers, blocked, pacer,
          channels, sample, cb, dma_cs, dma_at, dma_latch, dma_stores, gpio_fsel,
          gpio_level, pc, cc_ch, cc_caller, sd_i, sd_then, exit_via,
          exit_status, gpio_direction, gpio_mode, revision_int, gpio_pull,
          py_err, py_calls, gpio_warnings, py_configured, gpio_map,
          module_result, ncall>>

procVars == <<pc, cc_ch, cc_caller, sd_i, sd_then, exit_via, exit_status, blocked>>
libVars == <<_is_setup, pulse_width_incr_us, delay_hw, handlers, pacer>>
arenaVars == <<channels, sample, cb>>
dmaVars == <<dma_cs, dma_at, dma_latch, dma_stores>>
gpioVars == <<gpio_setup, gpio_fsel, gpio_level>>
pyVars == <<gpio_direction, gpio_mode, revision_int, gpio_pull, py_err, py_calls,
            gpio_warnings, py_configured, gpio_map, module_result>>

(* C integer conversions *)
ToU16(x) == x % 65536
\* A uint32_t is kept as the int with the same 32 bits (0xffffffff as -1):
\* a > b on uint32_t operands
UGt(a, b) == IF (a < 0) = (b < 0) THEN a > b ELSE a < 0

NoLatch == [word |-> {}, dst |-> "NONE"]
NullChannel == [virtbase |-> "NULL", dma_reg |-> "NULL", subcycle_time_us |-> 0,
                num_samples |-> 0, width_max |-> 0]

\* the PWM library and the hardware when the process starts
InitPwm ==
    /\ soft_fatal = 0
    /\ error_message = "none"
    /\ stderr_msg = "none"
    /\ ret = "none"
    /\ _is_setup = 0
    /\ pulse_width_incr_us = ToU16(-1)
    /\ delay_hw = DELAY_VIA_PWM
    /\ gpio_setup = {}
    /\ handlers = {}
    /\ blocked = {}
    /\ pacer = [kind |-> "off", range |-> 0, inits |-> 0]
    /\ channels = [c \in Channels |-> NullChannel]
    /\ sample = [c \in Channels |-> <<>>]
    /\ cb = [c \in Channels |-> <<>>]
    /\ dma_cs = [c \in Channels |-> "IDLE"]
    /\ dma_at = [c \in Channels |-> 0]
    /\ dma_latch = [c \in Channels |-> NoLatch]
    /\ dma_stores = [c \in Channels |-> <<>>]
    /\ gpio_fsel = [g \in Lines |-> "IN"]
    /\ gpio_level = {}
    /\ pc = "idle"
    /\ cc_ch = 0
    /\ cc_caller = "api"
    /\ sd_i = 0
    /\ sd_then = "return"
    /\ exit_via = "none"
    /\ exit_status = "none"
    /\ ncall = 0

\* the GPIO module after its import on a board of revision rev: module_setup
\* has marked every line unconfigured
InitPy(rev) ==
    /\ gpio_map = "MAPPED"
    /\ module_result = "SETUP_OK"
    /\ gpio_direction = [g \in Lines |-> -1]
    /\ gpio_mode = MODE_UNKNOWN
    /\ revision_int = rev
    /\ gpio_pull = [g \in Lines |-> PUD_OFF]
    /\ py_err = "none"
    /\ py_calls = <<>>
    /\ gpio_warnings = 1
    /\ py_configured = {}

Init == InitPwm /\ InitPy(2)

\* the same on a board of either revision
InitBoards == InitPwm /\ \E rev \in {1, 2} : InitPy(rev)

----------------------------------------------------------------------------
(* The arena: samples and control blocks (0-based, as in the source).      *)

\* a zero-filled arena as mmap returns it
ZeroSamples(n) == [i \in 0..(n - 1) |-> {}]
ZeroCbs(n) ==
    [k \in 0..(2 * n - 1) |-> [ctl |-> "ZERO", dst |-> "ZERO", src |-> -1, next |-> -1]]

FifoOf(hw) == IF hw = DELAY_VIA_PWM THEN "PWM_FIFO" ELSE "PCM_FIFO"

\* init_ctrl_data leaving the first control block on SET0
BuildCbs_FirstSet(n, hw) ==
    [k \in 0..(2 * n - 1) |->
        IF k % 2 = 0
        THEN [ctl |-> "OK", dst |-> IF k = 0 THEN "SET0" ELSE "CLR0",
              src |-> k \div 2, next |-> k + 1]
        ELSE [ctl |-> "OK", dst |-> FifoOf(hw), src |-> 0,
              next |-> IF k = 2 * n - 1 THEN 0 ELSE k + 1]]

\* init_ctrl_data: two control blocks per sample, the last links to the first.
\* src is the index of the sample word and next the index of the control block
\* whose bus address the field holds; ctl stands for info, length and stride.
BuildCbs(n, hw) ==
    [k \in 0..(2 * n - 1) |->
        IF k % 2 = 0
        THEN [ctl |-> "OK", dst |-> "CLR0", src |-> k \div 2, next |-> k + 1]
        ELSE [ctl |-> "OK", dst |-> FifoOf(hw), src |-> 0,
              next |-> IF k = 2 * n - 1 THEN 0 ELSE k + 1]]

\* init_ctrl_data: the stores into the arena, in program order: the control
\* blocks 0 .. 2n-1, then the next field of the last one
CbStores(n) ==
    [j \in 1..(2 * n) |-> [reg |-> "CB", val |-> "block", k |-> j - 1]]
        \o <<[reg |-> "CB", val |-> "next", k |-> 2 * n - 1]>>

\* init_ctrl_data: the stores into the channel's DMA registers, in program
\* order (CONBLK_AD receives the bus address of control block 0)
RegStores ==
    <<[reg |-> "CS", val |-> "DMA_RESET", k |-> 0],
      [reg |-> "CS", val |-> "DMA_INT|DMA_END", k |-> 0],
      [reg |-> "CONBLK_AD", val |-> "block", k |-> 0],
      [reg |-> "DEBUG", val |-> "7", k |-> 0],
      [reg |-> "CS", val |-> "0x10880001", k |-> 0]>>

\* init_ctrl_data linking the last control block after the engine was started
InitCtrlStores_LinkLast(n) ==
    SubSeq(CbStores(n), 1, 2 * n) \o RegStores \o <<CbStores(n)[2 * n + 1]>>

\* init_ctrl_data: all its stores, in program order
InitCtrlStores(n) == CbStores(n) \o RegStores

\* the first loop of clear_channel starting at i = 1
ClearDst_From1(cbs, n) ==
    [k \in DOMAIN cbs |->
        IF k % 2 = 0 /\ k > 0 /\ k \div 2 < n THEN [cbs[k] EXCEPT !.dst = "CLR0"] ELSE cbs[k]]

\* clear_channel, first loop: every even control block back to CLR0
ClearDst(cbs, n) ==
    [k \in DOMAIN cbs |->
        IF k % 2 = 0 /\ k \div 2 < n THEN [cbs[k] EXCEPT !.dst = "CLR0"] ELSE cbs[k]]

\* clear_channel_gpio storing 0 instead of masking the gpio's bit out
ClearGpioSamples_Word(smp, g) == [i \in DOMAIN smp |-> {}]

\* clear_channel_gpio: remove the gpio's bit from every sample
ClearGpioSamples(smp, g) == [i \in DOMAIN smp |-> smp[i] \ {g}]

\* add_channel_pulse toggling the bit of the first sample instead of setting it
AddPulseSamples_Toggle(smp, g, s, w) ==
    LET s1 == IF s \in DOMAIN smp
              THEN [smp EXCEPT ![s] = IF g \in @ THEN @ \ {g} ELSE @ \cup {g}]
              ELSE smp
        s2 == [i \in DOMAIN smp |->
                 IF i \in (s + 1)..(s + w - 2) THEN s1[i] \ {g} ELSE s1[i]]
    IN  IF s + w \in DOMAIN smp THEN [s2 EXCEPT ![s + w] = @ \cup {g}] ELSE s2

\* add_channel_pulse assigning the gpio's bit to the sample words of the two
\* edges instead of or-ing it in
AddPulseSamples_Assign(smp, g, s, w) ==
    LET s1 == IF s \in DOMAIN smp THEN [smp EXCEPT ![s] = {g}] ELSE smp
        s2 == [i \in DOMAIN smp |->
                 IF i \in (s + 1)..(s + w - 2) THEN s1[i] \ {g} ELSE s1[i]]
    IN  IF s + w \in DOMAIN smp THEN [s2 EXCEPT ![s + w] = {g}] ELSE s2

\* add_channel_pulse: the sample words after the call (a word dp + i with
\* i >= num_samples is not a sample word, see OrIntoCbs)
AddPulseSamples(smp, g, s, w) ==
    LET s1 == IF s \in DOMAIN smp THEN [smp EXCEPT ![s] = @ \cup {g}] ELSE smp
        s2 == [i \in DOMAIN smp |->
                 IF i \in (s + 1)..(s + w - 2) THEN s1[i] \ {g} ELSE s1[i]]
    IN  IF s + w \in DOMAIN smp THEN [s2 EXCEPT ![s + w] = @ \cup {g}] ELSE s2

\* add_channel_pulse: cbp starts at CB 2*s and advances by 2 per loop iteration
PulseEndCb(s, w) == 2 * s + 2 * (IF w > 2 THEN w - 2 ELSE 0)

\* add_channel_pulse: the control blocks after the two stores through cbp (a
\* block cbp + k with k >= 2 * num_samples lies in the unused rest of the
\* last page of the arena)
AddPulseCbs(cbs, s, w) ==
    LET c1 == IF 2 * s \in DOMAIN cbs THEN [cbs EXCEPT ![2 * s].dst = "SET0"] ELSE cbs
    IN  IF PulseEndCb(s, w) \in DOMAIN cbs
        THEN [c1 EXCEPT ![PulseEndCb(s, w)].dst = "CLR0"]
        ELSE c1

\* a bus address or a transfer word with one more bit set
Garbled == -2

\* get_cb: the control blocks start at word num_samples of the arena, eight
\* words each (info, src, dst, length, stride, next, pad, pad).  The store
\* *(dp + i) |= 1 << gpio with i >= n sets a bit in word (i - n) % 8 of
\* control block (i - n) \div 8.
OrIntoCbs(cbs, n, i) ==
    LET k == (i - n) \div 8
        f == (i - n) % 8
    IN  IF i < n \/ k \notin DOMAIN cbs THEN cbs
        ELSE [cbs EXCEPT ![k] =
                CASE f = 1 -> [@ EXCEPT !.src = Garbled]
                  [] f = 2 -> [@ EXCEPT !.dst = "GARBLED"]
                  [] f = 5 -> [@ EXCEPT !.next = Garbled]
                  [] f \in {0, 3, 4} -> [@ EXCEPT !.ctl = "GARBLED"]
                  [] OTHER -> @]

\* add_channel_pulse: the range check (int sum compared with uint32_t width_max)
WidthRejected(ch, s, w) == UGt(s + w, ch.width_max) \/ s < 0

----------------------------------------------------------------------------
(* The DMA engine.  At an even control block it reads the source word and  *)
(* then writes it to the destination; the odd control block that follows   *)
(* writes to the pacer FIFO and waits for the next tick.                   *)

StoreWord(level, word, dst) ==
    IF dst = "SET0" THEN level \cup word
    ELSE IF dst = "CLR0" THEN level \ word
    ELSE level

\* the engine can execute control block k as init_ctrl_data meant it; what it
\* does with a garbled or zero block is not modelled: it stops there
CbOk(cbs, k) ==
    /\ k \in DOMAIN cbs
    /\ cbs[k].ctl = "OK"
    /\ cbs[k].dst \in {"SET0", "CLR0", "PWM_FIFO", "PCM_FIFO"}
    /\ cbs[k].src >= 0
    /\ cbs[k].next >= 0

\* the control block reached after the even block k and the pacer block
AfterTick(cbs, k) ==
    IF CbOk(cbs, cbs[k].next) THEN cbs[cbs[k].next].next ELSE cbs[k].next

\* k ticks of the engine on program (smp, cbs), from control block at (the
\* first half of the ticks, then the rest)
RECURSIVE RunTicks(_, _, _, _, _)
RunTicks(smp, cbs, at, level, k) ==
    IF k = 0 \/ ~CbOk(cbs, at) THEN [at |-> at, level |-> level]
    ELSE IF k = 1
    THEN [at |-> AfterTick(cbs, at),
          level |-> StoreWord(level, smp[cbs[at].src], cbs[at].dst)]
    ELSE LET half == RunTicks(smp, cbs, at, level, k \div 2)
         IN  RunTicks(smp, cbs, half.at, half.level, k - k \div 2)

\* the tick length the pacer was programmed with by init_hardware
PacerTick == pacer.range \div 10

\* what the engine of channel c does during udelay(subcycle_time_us): it
\* completes the transfer in flight and then runs one tick per pacer period
RunSubcycle(c) ==
    IF dma_cs[c] # "ACTIVE"
    THEN [at |-> dma_at[c], level |-> gpio_level]
    ELSE LET inflight == dma_latch[c] # NoLatch
             lvl0 == IF inflight
                     THEN StoreWord(gpio_level, dma_latch[c].word, dma_latch[c].dst)
                     ELSE gpio_level
             at0 == IF inflight THEN AfterTick(cb[c], dma_at[c]) ELSE dma_at[c]
         IN  RunTicks(sample[c], cb[c], at0, lvl0,
                      channels[c].subcycle_time_us \div PacerTick)

----------------------------------------------------------------------------
(* The process: returning, fatal(), terminate() and faults.                *)

Uncatchable == {"SIGKILL"}
DefaultIgnored == {"SIGCHLD"}
Catchable == (Signals \cup {"SIGSEGV"}) \ Uncatchable

\* a library call returns r
Return(r) ==
    /\ ret' = r
    /\ UNCHANGED <<error_message, stderr_msg, procVars>>

\* shutdown() is entered; then says what follows it
BeginShutdown(then, via) ==
    /\ pc' = "sd_loop"
    /\ sd_i' = 0
    /\ sd_then' = then
    /\ exit_via' = via
    /\ UNCHANGED <<cc_ch, cc_caller, exit_status>>

\* fatal(msg): soft: store the message and return EXIT_FAILURE;
\* otherwise print it, shutdown() and exit(EXIT_FAILURE)
Fatal(msg) ==
    IF soft_fatal # 0
    THEN /\ error_message' = msg
         /\ ret' = "EXIT_FAILURE"
         /\ UNCHANGED <<stderr_msg, procVars>>
    ELSE /\ stderr_msg' = msg
         /\ BeginShutdown("EXIT_FAILURE", "fatal")
         /\ UNCHANGED <<error_message, ret, blocked>>

\* terminate(), the handler of signal sig: shutdown() and exit(EXIT_SUCCESS)
Terminate(sig) ==
    /\ BeginShutdown("EXIT_SUCCESS", "signal")
    /\ blocked' = blocked \cup {sig}

\* the kernel ends the process
Killed(sig, via) ==
    /\ pc' = "exited"
    /\ exit_status' = sig
    /\ exit_via' = via
    /\ UNCHANGED <<cc_ch, cc_caller, sd_i, sd_then, blocked>>

\* a store through an invalid pointer: SIGSEGV, handled by terminate() if
\* installed and not already running, else the default action
Segv ==
    IF "SIGSEGV" \in handlers /\ "SIGSEGV" \notin blocked
    THEN Terminate("SIGSEGV")
    ELSE Killed("SIGSEGV", IF exit_via = "none" THEN "kill" ELSE exit_via)

----------------------------------------------------------------------------
(* Library calls                                                           *)

\* set_softfatal
SetSoftfatal(enabled) ==
    /\ pc = "idle"
    /\ ret = "none" /\ error_message = "none"   \* at start: no call made yet
    /\ soft_fatal' = enabled
    /\ UNCHANGED <<pyVars, error_message, stderr_msg, ret, libVars, arenaVars, dmaVars,
                   gpioVars, procVars, ncall>>

\* init_hardware: program the pacer for the current tick and delay hardware
InitHardware(hw, incr) ==
    [kind |-> IF hw = DELAY_VIA_PWM THEN "PWM" ELSE "PCM",
     range |-> incr * 10,
     inits |-> IF pacer.inits < 2 THEN pacer.inits + 1 ELSE 2]

\* setup without the _is_setup test: every call that maps the peripherals
\* runs init_hardware again
Setup_NoLatchTest(pw_incr_us, hw, env) ==
    /\ pc = "idle"
    /\ delay_hw' = hw
    /\ pulse_width_incr_us' = ToU16(pw_incr_us)
    /\ handlers' = Catchable
    /\ IF env = "devmem_fail"
       THEN /\ Fatal("devmem")
            /\ UNCHANGED <<_is_setup, pacer>>
       ELSE /\ pacer' = InitHardware(hw, ToU16(pw_incr_us))
            /\ _is_setup' = 1
            /\ Return("EXIT_SUCCESS")
    /\ UNCHANGED <<soft_fatal, pyVars, arenaVars, dmaVars, gpioVars>>

\* setup(pw_incr_us, hw); env says whether /dev/mem can be mapped
Setup(pw_incr_us, hw, env) ==
    /\ pc = "idle"
    /\ delay_hw' = hw
    /\ pulse_width_incr_us' = ToU16(pw_incr_us)
    /\ IF _is_setup = 1
       THEN /\ Fatal("already_setup")
            /\ UNCHANGED <<_is_setup, handlers, pacer>>
       ELSE /\ handlers' = Catchable
            /\ IF env = "devmem_fail"
               THEN /\ Fatal("devmem")
                    /\ UNCHANGED <<_is_setup, pacer>>
               ELSE /\ pacer' = InitHardware(hw, ToU16(pw_incr_us))
                    /\ _is_setup' = 1
                    /\ Return("EXIT_SUCCESS")
    /\ UNCHANGED <<soft_fatal, pyVars, arenaVars, dmaVars, gpioVars>>

\* get_pulse_incr_us
get_pulse_incr_us == pulse_width_incr_us

\* is_channel_initialized
is_channel_initialized(c) == IF channels[c].virtbase # "NULL" THEN 1 ELSE 0

\* init_channel: the fields set before the arena is mapped
ChannelData(ch, subcycle_time_us, incr) ==
    [ch EXCEPT !.subcycle_time_us = subcycle_time_us,
               !.num_samples = subcycle_time_us \div incr,
               !.width_max = (subcycle_time_us \div incr) - 1]

\* init_channel: num_pages of an arena of n samples and 2n control blocks
NumPages(n) == (2 * n * 32 + n * 4 + PAGE_SIZE - 1) \div PAGE_SIZE

\* init_channel without its test for a channel that is initialised already
HasVirtbase_Never(ch) == FALSE

\* init_channel: the test for a channel that is initialised already
HasVirtbase(ch) == ch.virtbase # "NULL"

\* init_channel refusing the minimum itself
SubcycleTooSmall_Inclusive(subcycle_time_us) == subcycle_time_us <= SUBCYCLE_TIME_US_MIN

\* init_channel: the test of the subcycle time
SubcycleTooSmall(subcycle_time_us) == subcycle_time_us < SUBCYCLE_TIME_US_MIN

\* init_channel without its test of the setup latch
NotSetup_Never == FALSE

\* init_channel: the test of the setup latch
NotSetup == _is_setup = 0

\* init_channel(channel, subcycle_time_us); env says which system call fails
InitChannel(c, subcycle_time_us, env) ==
    /\ pc = "idle"
    /\ UNCHANGED <<soft_fatal, pyVars, libVars, gpioVars>>
    /\ IF NotSetup
       THEN Fatal("not_setup") /\ UNCHANGED <<arenaVars, dmaVars>>
       ELSE IF c > DMA_CHANNELS - 1
       THEN Fatal("invalid_channel") /\ UNCHANGED <<arenaVars, dmaVars>>
       ELSE IF HasVirtbase(channels[c])
       THEN Fatal("reinit") /\ UNCHANGED <<arenaVars, dmaVars>>
       ELSE IF SubcycleTooSmall(subcycle_time_us)
       THEN Fatal("subcycle") /\ UNCHANGED <<arenaVars, dmaVars>>
       ELSE
         LET d == ChannelData(channels[c], subcycle_time_us, pulse_width_incr_us)
             n == d.num_samples
         IN
              CASE env = "mmap_fail" \/ NumPages(n) = 0 ->
                 \* init_virtbase: mmap fails (always for a length of 0),
                 \* and virtbase keeps MAP_FAILED
                 /\ channels' = [channels EXCEPT ![c] = [d EXCEPT !.virtbase = "MAP_FAILED"]]
                 /\ Fatal("mmap")
                 /\ UNCHANGED <<sample, cb, dmaVars>>
              [] env = "pagemap_fail" /\ NumPages(n) > 0 ->
                 \* make_pagemap fails: the arena is mapped and zero
                 /\ channels' = [channels EXCEPT ![c] = [d EXCEPT !.virtbase = "MAPPED"]]
                 /\ sample' = [sample EXCEPT ![c] = ZeroSamples(n)]
                 /\ cb' = [cb EXCEPT ![c] = ZeroCbs(n)]
                 /\ Fatal("pagemap")
                 /\ UNCHANGED dmaVars
              [] env = "devmem_fail" /\ NumPages(n) > 0 /\ (soft_fatal = 0 \/ c = 0) ->
                 \* init_ctrl_data: map_peripheral fails in fatal(); with
                 \* soft_fatal it returns NULL, and NULL + 0 is NULL
                 /\ channels' = [channels EXCEPT ![c] = [d EXCEPT !.virtbase = "MAPPED"]]
                 /\ sample' = [sample EXCEPT ![c] = ZeroSamples(n)]
                 /\ cb' = [cb EXCEPT ![c] = ZeroCbs(n)]
                 /\ Fatal("devmem")
                 /\ UNCHANGED dmaVars
              [] env = "devmem_fail" /\ NumPages(n) > 0 /\ soft_fatal # 0 /\ c # 0 ->
                 \* NULL + 0x100 * channel is not NULL: the program is built
                 \* and the first store to dma_reg[DMA_CS] faults
                 /\ channels' = [channels EXCEPT ![c] =
                                   [d EXCEPT !.virtbase = "MAPPED", !.dma_reg = "WILD"]]
                 /\ sample' = [sample EXCEPT ![c] = ZeroSamples(n)]
                 /\ cb' = [cb EXCEPT ![c] = BuildCbs(n, delay_hw)]
                 /\ dma_stores' = [dma_stores EXCEPT ![c] = CbStores(n)]
                 /\ error_message' = "devmem"
                 /\ Segv
                 /\ UNCHANGED <<stderr_msg, ret, dma_cs, dma_at, dma_latch>>
              [] env = "ok" /\ NumPages(n) > 0 ->
                 /\ channels' = [channels EXCEPT ![c] =
                                   [d EXCEPT !.virtbase = "MAPPED", !.dma_reg = "MAPPED"]]
                 /\ sample' = [sample EXCEPT ![c] = ZeroSamples(n)]
                 /\ cb' = [cb EXCEPT ![c] = BuildCbs(n, delay_hw)]
                 /\ dma_cs' = [dma_cs EXCEPT ![c] = "ACTIVE"]
                 /\ dma_at' = [dma_at EXCEPT ![c] = 0]
                 /\ dma_latch' = [dma_latch EXCEPT ![c] = NoLatch]
                 /\ dma_stores' = [dma_stores EXCEPT ![c] = InitCtrlStores(n)]
                 /\ Return("EXIT_SUCCESS")

\* init_gpio: drive low, then output, then mark as set up
InitGpio(g) ==
    /\ gpio_level' = gpio_level \ {g}
    /\ gpio_fsel' = [gpio_fsel EXCEPT ![g] = "OUT"]
    /\ gpio_setup' = gpio_setup \cup {g}

\* add_channel_pulse(channel, gpio, width_start, width)
AddChannelPulse(c, g, s, w) ==
    /\ pc = "idle"
    /\ UNCHANGED <<soft_fatal, pyVars, libVars, channels, dmaVars>>
    /\ IF channels[c].virtbase = "NULL"
       THEN Fatal("uninitialized") /\ UNCHANGED <<sample, cb, gpioVars>>
       ELSE IF WidthRejected(channels[c], s, w)
       THEN Fatal("width") /\ UNCHANGED <<sample, cb, gpioVars>>
       ELSE
         /\ IF g \notin gpio_setup THEN InitGpio(g) ELSE UNCHANGED gpioVars
         /\ IF channels[c].virtbase = "MAP_FAILED"
            THEN \* the first store through dp faults
                 /\ Segv
                 /\ UNCHANGED <<error_message, stderr_msg, ret, sample, cb>>
            ELSE /\ sample' = [sample EXCEPT ![c] = AddPulseSamples(@, g, s, w)]
                 /\ cb' = [cb EXCEPT ![c] =
                             AddPulseCbs(OrIntoCbs(@, channels[c].num_samples, s), s, w)]
                 /\ Return("EXIT_SUCCESS")

\* clear_channel_gpio(channel, gpio)
ClearChannelGpio(c, g) ==
    /\ pc = "idle"
    /\ UNCHANGED <<soft_fatal, pyVars, libVars, channels, cb, dmaVars>>
    /\ IF channels[c].virtbase = "NULL"
       THEN Fatal("uninitialized") /\ UNCHANGED <<sample, gpioVars>>
       ELSE IF g \notin gpio_setup
       THEN Fatal("gpio_not_setup") /\ UNCHANGED <<sample, gpioVars>>
       ELSE IF channels[c].virtbase = "MAP_FAILED" /\ channels[c].num_samples > 0
       THEN \* the first store through dp faults
            /\ Segv
            /\ UNCHANGED <<error_message, stderr_msg, ret, sample, gpioVars>>
       ELSE /\ sample' = [sample EXCEPT ![c] = ClearGpioSamples(@, g)]
            /\ gpio_level' = gpio_level \ {g}
            /\ Return("EXIT_SUCCESS")
            /\ UNCHANGED <<gpio_setup, gpio_fsel>>

\* clear_channel up to its udelay: every even control block back to CLR0
ClearChannelBegin(c, caller) ==
    /\ cb' = [cb EXCEPT ![c] = ClearDst(@, channels[c].num_samples)]
    /\ pc' = "cc_wait"
    /\ cc_ch' = c
    /\ cc_caller' = caller

\* clear_channel(channel), called by the user
ClearChannel(c) ==
    /\ pc = "idle"
    /\ UNCHANGED <<soft_fatal, pyVars, libVars, channels, sample, dmaVars, gpioVars>>
    /\ IF channels[c].virtbase = "NULL"
       THEN Fatal("uninitialized") /\ UNCHANGED cb
       ELSE IF channels[c].virtbase = "MAP_FAILED" /\ channels[c].num_samples > 0
       THEN \* the first store through cbp faults
            /\ Segv
            /\ UNCHANGED <<error_message, stderr_msg, ret, cb>>
       ELSE /\ ClearChannelBegin(c, "api")
            /\ UNCHANGED <<error_message, stderr_msg, ret, sd_i, sd_then,
                           exit_via, exit_status, blocked>>

\* clear_channel: udelay(subcycle_time_us), the engine runs one subcycle
ClearChannelWait ==
    /\ pc = "cc_wait"
    /\ LET r == RunSubcycle(cc_ch) IN
         /\ gpio_level' = r.level
         /\ dma_at' = [dma_at EXCEPT ![cc_ch] = r.at]
         /\ dma_latch' = [dma_latch EXCEPT ![cc_ch] = NoLatch]
    /\ pc' = "cc_zero"
    /\ UNCHANGED <<soft_fatal, pyVars, error_message, stderr_msg, ret, libVars, arenaVars,
                   dma_cs, dma_stores, gpio_setup, gpio_fsel, cc_ch, cc_caller, sd_i, sd_then,
                   exit_via, exit_status, blocked, ncall>>

\* clear_channel: all samples to 0, and return to the caller
ClearChannelZero ==
    /\ pc = "cc_zero"
    /\ sample' = [sample EXCEPT ![cc_ch] = ZeroSamples(channels[cc_ch].num_samples)]
    /\ IF cc_caller = "shutdown"
       THEN pc' = "sd_wait" /\ UNCHANGED ret
       ELSE pc' = "idle" /\ ret' = "EXIT_SUCCESS"
    /\ UNCHANGED <<soft_fatal, pyVars, error_message, stderr_msg, libVars, channels, cb,
                   dmaVars, gpioVars, cc_ch, cc_caller, sd_i, sd_then, exit_via,
                   exit_status, blocked, ncall>>

\* print_channel(channel)
PrintChannel(c) ==
    /\ pc = "idle"
    /\ IF c > DMA_CHANNELS - 1 THEN Fatal("invalid_channel") ELSE Return("EXIT_SUCCESS")
    /\ UNCHANGED <<soft_fatal, pyVars, libVars, arenaVars, dmaVars, gpioVars>>

\* shutdown(), called by the user (cleanup) or at the end of main
Shutdown ==
    /\ pc = "idle"
    /\ BeginShutdown("return", exit_via)
    /\ UNCHANGED <<soft_fatal, pyVars, error_message, stderr_msg, ret, libVars, arenaVars,
                   dmaVars, gpioVars, blocked>>

\* shutdown: the loop head, for (i = 0; i < DMA_CHANNELS; i++)
ShutdownLoop ==
    /\ pc = "sd_loop"
    /\ UNCHANGED <<soft_fatal, pyVars, error_message, stderr_msg, ret, libVars, channels,
                   sample, dmaVars, gpioVars, blocked, exit_via, ncall>>
    /\ IF sd_i > MaxChannel
       THEN \* no channel above MaxChannel is ever initialised: the loop ends
            /\ IF sd_then = "return"
               THEN pc' = "idle" /\ UNCHANGED exit_status
               ELSE pc' = "exited" /\ exit_status' = sd_then
            /\ UNCHANGED <<cb, cc_ch, cc_caller, sd_i, sd_then>>
       ELSE IF channels[sd_i].dma_reg # "NULL" /\ channels[sd_i].virtbase # "NULL"
       THEN /\ ClearChannelBegin(sd_i, "shutdown")
            /\ UNCHANGED <<sd_i, sd_then, exit_status>>
       ELSE /\ sd_i' = sd_i + 1
            /\ UNCHANGED <<cb, pc, cc_ch, cc_caller, sd_then, exit_status>>

\* shutdown: udelay(channels[i].subcycle_time_us)
ShutdownWait ==
    /\ pc = "sd_wait"
    /\ LET r == RunSubcycle(sd_i) IN
         /\ gpio_level' = r.level
         /\ dma_at' = [dma_at EXCEPT ![sd_i] = r.at]
         /\ dma_latch' = [dma_latch EXCEPT ![sd_i] = NoLatch]
    /\ pc' = "sd_reset"
    /\ UNCHANGED <<soft_fatal, pyVars, error_message, stderr_msg, ret, libVars, arenaVars,
                   dma_cs, dma_stores, gpio_setup, gpio_fsel, cc_ch, cc_caller, sd_i, sd_then,
                   exit_via, exit_status, blocked, ncall>>

\* shutdown: channels[i].dma_reg[DMA_CS] = DMA_RESET
ShutdownReset ==
    /\ pc = "sd_reset"
    /\ UNCHANGED <<soft_fatal, pyVars, error_message, stderr_msg, ret, libVars, arenaVars,
                   dma_at, dma_stores, gpioVars, ncall>>
    /\ IF channels[sd_i].dma_reg = "WILD"
       THEN Segv /\ UNCHANGED <<dma_cs, dma_latch>>
       ELSE /\ dma_cs' = [dma_cs EXCEPT ![sd_i] = "RESET"]
            /\ dma_latch' = [dma_latch EXCEPT ![sd_i] = NoLatch]
            /\ sd_i' = sd_i + 1
            /\ pc' = "sd_loop"
            /\ UNCHANGED <<cc_ch, cc_caller, sd_then, exit_via, exit_status, blocked>>

\* a signal arrives
Signal(sig) ==
    /\ pc # "exited"
    /\ sig \notin blocked
    /\ UNCHANGED <<soft_fatal, pyVars, error_message, stderr_msg, ret, libVars, arenaVars,
                   dmaVars, gpioVars, ncall>>
    /\ IF sig \in handlers
       THEN Terminate(sig)
       ELSE IF sig \in DefaultIgnored
       THEN UNCHANGED procVars
       ELSE Killed(sig, "kill")

\* the engine of channel c reads the sample word of the control block it is at
DmaRead(c) ==
    /\ dma_cs[c] = "ACTIVE"
    /\ dma_latch[c] = NoLatch
    /\ CbOk(cb[c], dma_at[c])
    /\ dma_latch' = [dma_latch EXCEPT ![c] =
                       [word |-> sample[c][cb[c][dma_at[c]].src],
                        dst |-> cb[c][dma_at[c]].dst]]
    /\ UNCHANGED <<soft_fatal, pyVars, error_message, stderr_msg, ret, libVars, arenaVars,
                   dma_cs, dma_at, dma_stores, gpioVars, procVars, ncall>>

\* the engine writes the word, then the pacer block waits for the next tick
DmaWrite(c) ==
    /\ dma_cs[c] = "ACTIVE"
    /\ dma_latch[c] # NoLatch
    /\ gpio_level' = StoreWord(gpio_level, dma_latch[c].word, dma_latch[c].dst)
    /\ dma_at' = [dma_at EXCEPT ![c] = AfterTick(cb[c], dma_at[c])]
    /\ dma_latch' = [dma_latch EXCEPT ![c] = NoLatch]
    /\ UNCHANGED <<soft_fatal, pyVars, error_message, stderr_msg, ret, libVars, arenaVars,
                   dma_cs, dma_stores, gpio_setup, gpio_fsel, procVars, ncall>>

----------------------------------------------------------------------------
(* The GPIO facet (py_gpio.c over c_gpio.c)                                *)

\* the header tables, indexed from 0 as in C
At(table, i) == table[i + 1]

pin_to_gpio_rev1 ==
    <<-1, -1, -1, 0, -1, 1, -1, 4, 14, -1, 15, 17, 18, 21, -1, 22, 23, -1, 24,
      10, -1, 9, 25, 11, 8, -1, 7>>
pin_to_gpio_rev2 ==
    <<-1, -1, -1, 2, -1, 3, -1, 4, 14, -1, 15, 17, 18, 27, -1, 22, 23, -1, 24,
      10, -1, 9, 25, 11, 8, -1, 7>>
\* 3 | HEADER_P5 is 3 | 5<<8 = 1283, and so on for the P5 header
gpio_to_pin_rev1 ==
    <<3, 5, -1, -1, 7, -1, -1, 26, 24, 21, 19, 23, -1, -1, 8, 10, -1, 11, 12,
      -1, -1, 13, 15, 16, 18, 22, -1, -1, -1, -1, -1, -1>>
gpio_to_pin_rev2 ==
    <<-1, -1, 3, 5, 7, -1, -1, 26, 24, 21, 19, 23, -1, -1, 8, 10, -1, 11, 12,
      -1, -1, -1, 15, 16, 18, 22, -1, 15, 1283, 1284, 1285, 1286>>

\* the module init points the two table pointers by the board revision
pin_to_gpio == IF revision_int = 1 THEN pin_to_gpio_rev1 ELSE pin_to_gpio_rev2
gpio_to_pin == IF revision_int = 1 THEN gpio_to_pin_rev1 ELSE gpio_to_pin_rev2

bcm_to_board(bcm_gpio_id) == At(gpio_to_pin, bcm_gpio_id)
board_to_bcm(board_pin_id) == At(pin_to_gpio, board_pin_id)

\* channel_to_gpio: the BCM line of a channel under the mode set, or -1 (no
\* mode set), -2 (outside the range), -3 (not a pin of this board)
channel_to_gpio(channel) ==
    IF gpio_mode # BOARD /\ gpio_mode # BCM THEN -1
    ELSE IF \/ (gpio_mode = BCM /\ (channel < 0 \/ channel > 31))
            \/ (gpio_mode = BOARD /\ (channel < 1 \/ channel > 26)) THEN -2
    ELSE IF gpio_mode = BOARD
    THEN IF board_to_bcm(channel) = -1 THEN -3 ELSE board_to_bcm(channel)
    ELSE IF bcm_to_board(channel) = -1 THEN -3 ELSE channel

\* the exception channel_to_gpio sets with a negative result
ChannelException(code) ==
    IF code = -1 THEN "ModeNotSetException" ELSE "InvalidChannelException"

\* output_gpio: the line's bit in the SET or in the CLR register
output_gpio(level, gpio, value) ==
    IF value # 0 THEN level \cup {gpio} ELSE level \ {gpio}

\* setup_gpio on the function-select register: OUTPUT is 001, else 000
setup_gpio(fsel, gpio, direction) ==
    [fsel EXCEPT ![gpio] = IF direction = OUTPUT THEN "OUT" ELSE "IN"]

\* the call now made, after the one before it
Called(name) ==
    py_calls' = IF py_calls = <<>> THEN <<name>> ELSE <<py_calls[Len(py_calls)], name>>

\* what every call of the GPIO facet leaves alone
PyFrame ==
    UNCHANGED <<soft_fatal, error_message, stderr_msg, ret, libVars, arenaVars,
                dmaVars, gpio_setup, revision_int, gpio_map, module_result>>

\* setmode(mode): the argument is parsed into gpio_mode, and tested after
SetMode(mode) ==
    /\ pc = "idle"
    /\ gpio_mode' = mode
    /\ py_err' = IF mode # BOARD /\ mode # BCM THEN "InvalidModeException" ELSE "none"
    /\ Called("setmode")
    /\ PyFrame
    /\ UNCHANGED <<procVars, gpio_direction, gpio_pull, gpio_fsel, gpio_level,
                   gpio_warnings, py_configured>>

\* setup storing the direction into every entry of the pin-mode table
RecordDirection_All(table, gpio, direction) == [i \in DOMAIN table |-> direction]

\* setup on the pin-mode table: gpio_direction[gpio] = direction
RecordDirection(table, gpio, direction) == [table EXCEPT ![gpio] = direction]

\* setup(channel, direction, pull_up_down, initial); the warning about a
\* channel already in use is not an exception and is left out
PySetupChannel(channel, direction, pud0, initial) ==
    /\ pc = "idle"
    /\ Called("setup")
    /\ PyFrame
    /\ UNCHANGED <<procVars, gpio_mode, gpio_warnings>>
    /\ LET pud == IF direction = OUTPUT THEN PUD_OFF ELSE pud0
           gpio == channel_to_gpio(channel)
       IN  IF direction # INPUT /\ direction # OUTPUT
           THEN /\ py_err' = "InvalidDirectionException"
                /\ UNCHANGED <<gpio_direction, gpio_pull, gpio_fsel, gpio_level,
                               py_configured>>
           ELSE IF pud # PUD_OFF /\ pud # PUD_DOWN /\ pud # PUD_UP
           THEN /\ py_err' = "InvalidPullException"
                /\ UNCHANGED <<gpio_direction, gpio_pull, gpio_fsel, gpio_level,
                               py_configured>>
           ELSE IF gpio < 0
           THEN /\ py_err' = ChannelException(gpio)
                /\ UNCHANGED <<gpio_direction, gpio_pull, gpio_fsel, gpio_level,
                               py_configured>>
           ELSE /\ gpio_level' = IF direction = OUTPUT /\ (initial = LOW \/ initial = HIGH)
                                 THEN output_gpio(gpio_level, gpio, initial)
                                 ELSE gpio_level
                /\ gpio_pull' = [gpio_pull EXCEPT ![gpio] = pud]
                /\ gpio_fsel' = setup_gpio(gpio_fsel, gpio, direction)
                /\ gpio_direction' = RecordDirection(gpio_direction, gpio, direction)
                /\ py_configured' = py_configured \cup {gpio}
                /\ py_err' = "none"

\* a direction test that rejects only the lines never set up
NotOutput_Unconfigured(direction, gpio) == direction[gpio] = -1

\* the direction test of output: the pin-mode entry is not OUTPUT
NotOutput(direction, gpio) == direction[gpio] # OUTPUT

\* output(channel, value)
PyOutputGpio(channel, value) ==
    /\ pc = "idle"
    /\ Called("output")
    /\ PyFrame
    /\ UNCHANGED <<procVars, gpio_mode, gpio_direction, gpio_pull, gpio_fsel,
                   gpio_warnings, py_configured>>
    /\ LET gpio == channel_to_gpio(channel)
       IN  IF gpio < 0
           THEN py_err' = ChannelException(gpio) /\ UNCHANGED gpio_level
           ELSE IF NotOutput(gpio_direction, gpio)
           THEN py_err' = "WrongDirectionException" /\ UNCHANGED gpio_level
           ELSE /\ gpio_level' = output_gpio(gpio_level, gpio, value)
                /\ py_err' = "none"

\* cleanup keeps the pin-mode entry of a line it has set back to input
CleanupDirection_Keep(direction) == direction

\* cleanup on the pin-mode table: every entry unconfigured
CleanupDirection(direction) == [i \in DOMAIN direction |-> -1]

\* cleanup going only over the lines recorded as inputs
CleanupFsel_Inputs(fsel, direction) ==
    [i \in DOMAIN fsel |-> IF direction[i] = INPUT THEN "IN" ELSE fsel[i]]

\* cleanup on the function-select registers: setup_gpio(i, INPUT, PUD_OFF)
\* for every line whose pin-mode entry is not -1
CleanupFsel(fsel, direction) ==
    [i \in DOMAIN fsel |-> IF direction[i] # -1 THEN "IN" ELSE fsel[i]]

\* cleanup on the pulls, by the same calls
CleanupPull(pull, direction) ==
    [i \in DOMAIN pull |-> IF direction[i] # -1 THEN PUD_OFF ELSE pull[i]]

\* cleanup()
PyCleanup ==
    /\ pc = "idle"
    /\ Called("cleanup")
    /\ PyFrame
    /\ gpio_fsel' = CleanupFsel(gpio_fsel, gpio_direction)
    /\ gpio_pull' = CleanupPull(gpio_pull, gpio_direction)
    /\ gpio_direction' = CleanupDirection(gpio_direction)
    /\ py_err' = "none"
    /\ UNCHANGED <<procVars, gpio_mode, gpio_level, gpio_warnings, py_configured>>

\* force_output(channel, value): output without the direction test
PyForceOutputGpio(channel, value) ==
    /\ pc = "idle"
    /\ Called("forceoutput")
    /\ PyFrame
    /\ UNCHANGED <<procVars, gpio_mode, gpio_direction, gpio_pull, gpio_fsel,
                   gpio_warnings, py_configured>>
    /\ LET gpio == channel_to_gpio(channel)
       IN  IF gpio < 0
           THEN py_err' = ChannelException(gpio) /\ UNCHANGED gpio_level
           ELSE /\ gpio_level' = output_gpio(gpio_level, gpio, value)
                /\ py_err' = "none"

\* set_pullupdn on the pulls: PUD_DOWN, PUD_UP, and off for anything else
set_pullupdn(pull, gpio, pud) ==
    [pull EXCEPT ![gpio] = IF pud = PUD_DOWN THEN PUD_DOWN
                           ELSE IF pud = PUD_UP THEN PUD_UP ELSE PUD_OFF]

\* set_pullupdn(channel, pull_up_down)
PySetPullupdn(channel, pud) ==
    /\ pc = "idle"
    /\ Called("set_pullupdn")
    /\ PyFrame
    /\ UNCHANGED <<procVars, gpio_mode, gpio_direction, gpio_level, gpio_fsel,
                   gpio_warnings, py_configured>>
    /\ LET gpio == channel_to_gpio(channel)
       IN  IF gpio < 0
           THEN py_err' = ChannelException(gpio) /\ UNCHANGED gpio_pull
           ELSE /\ gpio_pull' = set_pullupdn(gpio_pull, gpio, pud)
                /\ py_err' = "none"

\* verify_input: 1 if the channel may be read.  Only the code -1 of
\* channel_to_gpio is tested before the pin-mode table is indexed, so with
\* the codes -2 and -3 the table is read in front of its first entry: junk
\* is the word found there
verify_input(channel, junk) ==
    LET gpio == channel_to_gpio(channel)
        direction == IF gpio \in Lines THEN gpio_direction[gpio] ELSE junk
    IN  IF gpio = -1 THEN 0
        ELSE IF direction # INPUT /\ direction # OUTPUT THEN 0
        ELSE 1

\* the exception pending when input(channel) returns
InputException(channel, junk) ==
    LET gpio == channel_to_gpio(channel)
    IN  IF gpio = -1 THEN ChannelException(gpio)
        ELSE IF verify_input(channel, junk) = 0 THEN "WrongDirectionException"
        ELSE IF gpio < 0 THEN "SystemError"   \* a result with an exception set
        ELSE "none"

\* input(channel); it reads the level and writes no register
PyInputGpio(channel, junk) ==
    /\ pc = "idle"
    /\ Called("input")
    /\ PyFrame
    /\ py_err' = InputException(channel, junk)
    /\ UNCHANGED <<procVars, gpio_mode, gpio_direction, gpio_pull, gpio_fsel,
                   gpio_level, gpio_warnings, py_configured>>

\* force_input(channel) and gpio_function(channel): channel_to_gpio, then a
\* read of the level or of the function select
PyReadGpio(name, channel) ==
    /\ pc = "idle"
    /\ Called(name)
    /\ PyFrame
    /\ py_err' = IF channel_to_gpio(channel) < 0
                 THEN ChannelException(channel_to_gpio(channel)) ELSE "none"
    /\ UNCHANGED <<procVars, gpio_mode, gpio_direction, gpio_pull, gpio_fsel,
                   gpio_level, gpio_warnings, py_configured>>

PyForceInputGpio(channel) == PyReadGpio("forceinput", channel)

PyGpioFunction(channel) == PyReadGpio("gpio_function", channel)

\* setwarnings(state)
PySetWarnings(state) ==
    /\ pc = "idle"
    /\ Called("setwarnings")
    /\ PyFrame
    /\ gpio_warnings' = state
    /\ py_err' = "none"
    /\ UNCHANGED <<procVars, gpio_mode, gpio_direction, gpio_pull, gpio_fsel,
                   gpio_level, py_configured>>

\* the interpreter exits: the handler registered with Py_AtExit is c_gpio.c's
\* cleanup(), which unmaps the registers and writes none of them
PyExit ==
    /\ pc = "idle"
    /\ pc' = "exited"
    /\ exit_via' = "atexit"
    /\ exit_status' = "EXIT_SUCCESS"
    /\ PyFrame
    /\ UNCHANGED <<cc_ch, cc_caller, sd_i, sd_then, blocked, gpio_mode,
                   gpio_direction, gpio_pull, gpio_fsel, gpio_level, py_err,
                   py_calls, gpio_warnings, py_configured, ncall>>

----------------------------------------------------------------------------
\* one more library call, of at most budget
Counted(budget) == ncall < budget /\ ncall' = ncall + 1

\* the library calls on the channels chs with the system-call outcomes envs,
\* the setup arguments setups, the subcycle times subcycles and the pulse
\* arguments starts and widths, at most budget of them
Call(chs, envs, setups, subcycles, starts, widths, budget) ==
    \/ \E a \in setups, env \in envs \cap SetupEnvs :
          Counted(budget) /\ Setup(a[1], a[2], env)
    \/ \E c \in chs \cup {DMA_CHANNELS}, t \in subcycles, env \in envs :
          Counted(budget) /\ InitChannel(c, t, env)
    \/ \E c \in chs, g \in Gpios, s \in starts, w \in widths :
          Counted(budget) /\ AddChannelPulse(c, g, s, w)
    \/ \E c \in chs, g \in Gpios : Counted(budget) /\ ClearChannelGpio(c, g)
    \/ \E c \in chs : Counted(budget) /\ ClearChannel(c)
    \/ \E c \in chs \cup WildChannels : Counted(budget) /\ PrintChannel(c)
    \/ Counted(budget) /\ Shutdown

\* the steps of a call or handler that is under way
Step ==
    \/ ClearChannelWait
    \/ ClearChannelZero
    \/ ShutdownLoop
    \/ ShutdownWait
    \/ ShutdownReset

Dma(chs) == \E c \in chs : DmaRead(c) \/ DmaWrite(c)

\* The library and the process: every call, every failure, signals.
Next ==
    \/ \E e \in {0, 1} : SetSoftfatal(e)
    \/ Call(Channels, ChannelEnvs, SetupArgs, SubcycleArgs, StartArgs, WidthArgs, MaxCalls)
    \/ Step
    \/ \E sig \in Signals : Signal(sig)

Spec == Init /\ [][Next]_vars

\* The library and the free-running DMA engine, on channel 0.
NextDma ==
    \/ \E e \in {0, 1} : SetSoftfatal(e)
    \/ Call({0}, {"ok"}, SetupArgs, SubcycleArgs, StartArgs, WidthArgs, MaxCalls + 1)
    \/ Step
    \/ Dma({0})

SpecDma == Init /\ [][NextDma]_vars

\* The library on channel 0 with every pulse argument an int can carry in
\* the model: negative widths, and starts past the sample array.
NextArgs ==
    \/ \E e \in {0, 1} : SetSoftfatal(e)
    \/ Call({0}, {"ok"}, SetupArgs, SubcycleArgs, WideStartArgs, WideWidthArgs, MaxCalls + 1)
    \/ Step

SpecArgs == Init /\ [][NextArgs]_vars

\* The library on channel 0 with ticks and subcycle times of the size the
\* documentation names (a tick of 10 us, subcycles of 3 ms and 20 ms).
NextLayout ==
    \/ \E e \in {0, 1} : SetSoftfatal(e)
    \/ Call({0}, {"ok"}, LayoutSetupArgs, LayoutSubcycleArgs, {0}, 1..2, MaxCalls - 1)
    \/ Step

SpecLayout == Init /\ [][NextLayout]_vars

\* The library on channel 0 with a subcycle of six ticks, long enough for two
\* pulses of three ticks that overlap.
NextEdges ==
    \/ \E e \in {0, 1} : SetSoftfatal(e)
    \/ Call({0}, {"ok"}, PwmSetupArgs, EdgeSubcycleArgs, EdgeStartArgs, EdgeWidthArgs,
            MaxCalls + 1)
    \/ Step

SpecEdges == Init /\ [][NextEdges]_vars

\* the calls of the GPIO facet, at most budget of them
PyCall(budget) ==
    \/ \E mode \in PyModeArgs : Counted(budget) /\ SetMode(mode)
    \/ \E channel \in PyChannelArgs, direction \in PyDirectionArgs,
          pud \in PyPudArgs, initial \in PyInitialArgs :
          Counted(budget) /\ PySetupChannel(channel, direction, pud, initial)
    \/ \E channel \in PyChannelArgs, value \in PyValueArgs :
          Counted(budget) /\ PyOutputGpio(channel, value)
    \/ Counted(budget) /\ PyCleanup

\* The two facets in one process: the GPIO facet on a board of either
\* revision, and the PWM library on channel 0.
NextGpio ==
    \/ PyCall(PyMaxCalls)
    \/ Call({0}, {"ok"}, PwmSetupArgs, PwmSubcycleArgs, {0}, PwmWidthArgs, PyMaxCalls)
    \/ Step

SpecGpio == InitBoards /\ [][NextGpio]_vars

\* the calls of the GPIO facet that PyCall leaves out
PyCallMore(budget) ==
    \/ \E channel \in PyChannelArgs, value \in PyValueArgs :
          Counted(budget) /\ PyForceOutputGpio(channel, value)
    \/ \E channel \in PyChannelArgs, pud \in PyPudArgs :
          Counted(budget) /\ PySetPullupdn(channel, pud)
    \/ \E channel \in PyChannelArgs, junk \in PyJunkArgs :
          Counted(budget) /\ PyInputGpio(channel, junk)
    \/ \E channel \in PyChannelArgs : Counted(budget) /\ PyForceInputGpio(channel)
    \/ \E channel \in PyChannelArgs : Counted(budget) /\ PyGpioFunction(channel)
    \/ \E state \in PyWarningArgs : Counted(budget) /\ PySetWarnings(state)

\* The GPIO facet alone, in a process that does not use the PWM library, on
\* a board of either revision, up to the exit of the interpreter.
NextPins ==
    \/ PyCall(PinsMaxCalls)
    \/ PyCallMore(PinsMaxCalls)
    \/ PyExit

SpecPins == InitBoards /\ [][NextPins]_vars

\* the test after mmap, `(uint32_t)gpio_map < 0`: an unsigned value is never
\* below 0
MapBelowZero(map) == FALSE

\* c_gpio.c setup(): the result and gpio_map, by what open, malloc and mmap do
setup(env) ==
    IF env = "devmem_fail" THEN <<"SETUP_DEVMEM_FAIL", "NULL">>
    ELSE IF env = "malloc_fail" THEN <<"SETUP_MALLOC_FAIL", "NULL">>
    ELSE LET map == IF env = "mmap_fail" THEN "MAP_FAILED" ELSE "MAPPED"
         IN  IF MapBelowZero(map) THEN <<"SETUP_MMAP_FAIL", map>> ELSE <<"SETUP_OK", map>>

\* module_setup, run at the import of the GPIO module
ModuleSetup(env) ==
    /\ pc = "idle"
    /\ module_result = "none"
    /\ LET result == setup(env)
       IN  /\ gpio_map' = result[2]
           /\ module_result' = IF result[1] = "SETUP_MMAP_FAIL"
                               THEN "SETUP_MALLOC_FAIL"
                               ELSE result[1]
           /\ py_err' = IF result[1] = "SETUP_DEVMEM_FAIL" THEN "RuntimeError"
                        ELSE IF result[1] = "SETUP_MALLOC_FAIL" THEN "MemoryError"
                        ELSE IF result[1] = "SETUP_MMAP_FAIL" THEN "RuntimeError"
                        ELSE "none"
    /\ gpio_direction' = [g \in Lines |-> -1]
    /\ UNCHANGED <<soft_fatal, error_message, stderr_msg, ret, libVars, arenaVars,
                   dmaVars, gpioVars, procVars, gpio_mode, revision_int,
                   gpio_pull, py_calls, gpio_warnings, py_configured, ncall>>

\* a call of the imported module that reads or writes a GPIO register while
\* gpio_map is MAP_FAILED: an access through an invalid pointer
GpioMapFault(sig) ==
    /\ pc = "idle"
    /\ module_result = "SETUP_OK"
    /\ gpio_map = "MAP_FAILED"
    /\ Killed(sig, "kill")
    /\ UNCHANGED <<soft_fatal, error_message, stderr_msg, ret, libVars, arenaVars,
                   dmaVars, gpioVars, pyVars, ncall>>

\* the state before the import of the GPIO module, on a board of either
\* revision
InitImport ==
    /\ InitPwm
    /\ gpio_map = "NULL"
    /\ module_result = "none"
    /\ gpio_direction = [g \in Lines |-> 0]
    /\ gpio_mode = MODE_UNKNOWN
    /\ revision_int \in {1, 2}
    /\ gpio_pull = [g \in Lines |-> PUD_OFF]
    /\ py_err = "none"
    /\ py_calls = <<>>
    /\ gpio_warnings = 1
    /\ py_configured = {}

\* The import of the GPIO module under every outcome of open, malloc and
\* mmap, followed by the GPIO facet's calls when the import succeeded.
NextImport ==
    \/ \E env \in ImportEnvs : ModuleSetup(env)
    \/ /\ module_result = "SETUP_OK"
       /\ gpio_map = "MAPPED"
       /\ NextPins
    \/ \E sig \in {"SIGSEGV", "SIGBUS"} : GpioMapFault(sig)

SpecImport == InitImport /\ [][NextImport]_vars

----------------------------------------------------------------------------
(* Claims                                                                  *)

\* add_channel_pulse(c, g, s, w) runs on a channel whose arena is mapped and
\* returns EXIT_SUCCESS
AddSucceeds(c, g, s, w) ==
    /\ AddChannelPulse(c, g, s, w)
    /\ channels[c].virtbase = "MAPPED"
    /\ pc' = "idle"
    /\ ret' = "EXIT_SUCCESS"

\* C1: sample-bit invariant.  After every add_channel_pulse(c, g, s, w) that
\* returns success on an initialised channel, whatever pulses were added
\* before, sample[s] and sample[s+w] have bit g set and every sample[i] with
\* s+1 <= i <= s+w-1 has bit g clear.
C1_SampleBits ==
    [][\A c \in Channels, g \in Gpios, s \in StartArgs, w \in WidthArgs :
          AddSucceeds(c, g, s, w) =>
              /\ g \in sample'[c][s]
              /\ g \in sample'[c][s + w]
              /\ \A i \in (s + 1)..(s + w - 1) : g \notin sample'[c][i]]_vars

\* C2: edge destinations.  After every successful add_channel_pulse(c, g, s, w)
\* with w >= 1, the even control block of tick s (index 2*s) has destination
\* SET0 and the even control block of tick s+w (index 2*(s+w)) has destination
\* CLR0, whatever the destinations were before.
C2_EdgeDst ==
    [][\A c \in Channels, g \in Gpios, s \in StartArgs, w \in WidthArgs :
          (AddSucceeds(c, g, s, w) /\ w >= 1) =>
              /\ cb'[c][2 * s].dst = "SET0"
              /\ cb'[c][2 * (s + w)].dst = "CLR0"]_vars

\* the output latch after the first k ticks of a traversal of (smp, cbs) that
\* starts at control block 0 with the latch at level
Traverse(smp, cbs, level, k) == RunTicks(smp, cbs, 0, level, k).level

\* channel c runs the program init_channel built: no pulse, every even
\* control block on CLR0
Fresh(c) ==
    /\ channels[c].virtbase = "MAPPED"
    /\ channels[c].dma_reg = "MAPPED"
    /\ \A i \in DOMAIN sample[c] : sample[c][i] = {}
    /\ \A k \in DOMAIN cb[c] : k % 2 = 0 => cb[c][k].dst = "CLR0"

\* C3: generated waveform.  On a freshly initialised channel with no other
\* pulses, after add_channel_pulse(c, g, s, w) succeeds (w >= 1), every full
\* traversal of the cyclic program returns to control block 0 and has g high
\* exactly during the ticks s .. s+w-1 of the subcycle.
C3_Waveform ==
    [][\A c \in Channels, g \in Gpios, s \in StartArgs, w \in WidthArgs :
          (Fresh(c) /\ AddSucceeds(c, g, s, w) /\ w >= 1) =>
              LET n == channels[c].num_samples
                  first == RunTicks(sample'[c], cb'[c], 0, {}, n)
              IN  /\ first.at = 0
                  /\ \A i \in 0..(n - 1) :
                        g \in Traverse(sample'[c], cb'[c], first.level, i + 1)
                            <=> (s <= i /\ i <= s + w - 1)]_vars

\* C4: range rejection, read where a failing call returns (soft_fatal set) and
\* on a channel that counts as initialised.  add_channel_pulse(c, g, s, w)
\* with s + w > num_samples - 1 or s < 0 returns failure (width) and mutates
\* no sample word, no control-block destination, no gpio_setup bit and no
\* GPIO register; a call with s >= 0 and s + w = num_samples - 1 is accepted.
C4_RangeRejection ==
    [][\A c \in Channels, g \in Gpios, s \in StartArgs, w \in WidthArgs :
          (AddChannelPulse(c, g, s, w) /\ soft_fatal # 0
              /\ channels[c].virtbase # "NULL") =>
              /\ (s + w > channels[c].num_samples - 1 \/ s < 0) =>
                    /\ pc' = "idle"
                    /\ ret' = "EXIT_FAILURE"
                    /\ error_message' = "width"
                    /\ UNCHANGED <<sample, cb, gpioVars>>
              /\ (s >= 0 /\ s + w = channels[c].num_samples - 1) =>
                    error_message' = error_message]_vars

\* C5: one-shot setup.  Once a setup call has succeeded (_is_setup = 1), no
\* step clears _is_setup or executes init_hardware again (the pacer is not
\* reprogrammed), and every later setup call fails with already-setup: with
\* soft_fatal it stores the message and returns EXIT_FAILURE; without, it
\* prints the message and takes the fatal exit with EXIT_FAILURE.
C5_OneShotSetup ==
    [][/\ _is_setup = 1 => (_is_setup' = 1 /\ pacer' = pacer)
       /\ \A a \in SetupArgs, env \in SetupEnvs :
              (Setup(a[1], a[2], env) /\ _is_setup = 1) =>
                  IF soft_fatal # 0
                  THEN /\ pc' = "idle"
                       /\ ret' = "EXIT_FAILURE"
                       /\ error_message' = "already_setup"
                  ELSE /\ stderr_msg' = "already_setup"
                       /\ pc' = "sd_loop"
                       /\ sd_then' = "EXIT_FAILURE"]_vars

\* a second setup was made after a successful one, and was refused
C5_Witness ==
    /\ _is_setup = 1
    /\ pacer.inits = 1
    /\ error_message = "already_setup"
    /\ ret = "EXIT_FAILURE"

\* the FIFO of the pacer that init_hardware programmed
OriginalFifo == IF pacer.kind = "PWM" THEN "PWM_FIFO" ELSE "PCM_FIFO"

\* C6: the tick (get_pulse_incr_us) and the pacer kind chosen by the first
\* successful setup are changed by no later call that returns, a rejected
\* second setup included; a channel initialised afterwards computes
\* num_samples = subcycle_us / original tick and targets the original
\* pacer's FIFO.
C6_TickFixed ==
    [][/\ (_is_setup = 1 /\ pc' = "idle") =>
              /\ get_pulse_incr_us' = get_pulse_incr_us
              /\ delay_hw' = delay_hw
       /\ \A c \in Channels :
              (channels[c].virtbase = "NULL" /\ dma_cs'[c] = "ACTIVE") =>
                  /\ channels'[c].num_samples =
                         channels'[c].subcycle_time_us \div PacerTick
                  /\ \A k \in DOMAIN cb'[c] :
                         k % 2 = 1 => cb'[c][k].dst = OriginalFifo]_vars

\* C7: shutdown order.  When shutdown is about to write DMA_RESET to the CS
\* register of an initialised channel, it has rewritten every even control
\* block of the channel to CLR0 and waited one subcycle: no control block of
\* the channel targets SET0 and the GPIOs pulsed on it (those the PWM engine
\* claimed) have been driven low.
C7_ShutdownOrder ==
    (pc = "sd_reset" /\ channels[sd_i].dma_reg = "MAPPED") =>
        /\ \A k \in DOMAIN cb[sd_i] : cb[sd_i][k].dst # "SET0"
        /\ gpio_level \cap gpio_setup = {}

\* C8: no exit with DMA running.  When the process has exited through a
\* fatal error (soft_fatal off) or through a caught signal after setup, every
\* channel whose DMA was started has had DMA_RESET written to its CS register.
C8_NoExitWithDmaRunning ==
    (pc = "exited" /\ exit_via \in {"fatal", "signal"}) =>
        \A c \in Channels : dma_cs[c] # "ACTIVE"

\* C9: soft-fatal mode.  With soft_fatal set, every library call that fails
\* stores its message in error_message and returns EXIT_FAILURE; the process
\* does not exit and no DMA channel is cleared or reset by the failure.
C9_SoftFatal ==
    [][(soft_fatal # 0 /\ ncall' # ncall
           /\ (error_message' # error_message \/ ret' = "EXIT_FAILURE")) =>
          /\ pc' = "idle"
          /\ ret' = "EXIT_FAILURE"
          /\ error_message' # "none"
          /\ dma_cs' = dma_cs
          /\ \A c \in Channels : channels[c].dma_reg = "MAPPED" =>
                 (cb'[c] = cb[c] /\ sample'[c] = sample[c])]_vars

\* C10: benign-signal whitelist.  After setup, the receipt of a whitelisted
\* benign signal (SIGCHLD) does not run the shutdown path and does not
\* terminate the process.
C10_BenignSignals ==
    [][(Signal("SIGCHLD") /\ _is_setup = 1) =>
          (pc' = pc /\ exit_via' = exit_via /\ exit_status' = exit_status)]_vars

\* init_channel returned EXIT_SUCCESS on channel c: the arena is mapped, the
\* program built and the DMA registers mapped
Initialised(c) ==
    /\ channels[c].virtbase = "MAPPED"
    /\ channels[c].dma_reg = "MAPPED"

\* following next from control block 0 of a program of n samples visits
\* 0, 1, .., 2n-1 in this order and is back at 0 after 2n steps
ChainClosed(cbs, n) ==
    /\ n >= 1
    /\ DOMAIN cbs = 0..(2 * n - 1)
    /\ \A k \in 0..(2 * n - 1) : cbs[k].next = (k + 1) % (2 * n)

\* C11: control-block chain closure.  In every reachable state of an
\* initialised channel with n samples, following next from control block 0
\* visits the blocks 0 .. 2n-1 in order and returns to block 0 after exactly
\* 2n steps; no operation (add_channel_pulse, clear_channel,
\* clear_channel_gpio, shutdown) changes a next link.
C11_ChainClosure ==
    \A c \in Channels :
        Initialised(c) => ChainClosed(cb[c], channels[c].num_samples)

\* C12: bus-view address correctness.  In every control block of an
\* initialised channel, the destination of an even block is the bus address of
\* GPIO SET0 or CLR0, the destination of an odd block is the FIFO bus address
\* of the pacer that setup initialised, and src and next hold the resolved
\* address of a sample word, respectively a control block, of the arena.
C12_BusAddresses ==
    \A c \in Channels :
        Initialised(c) =>
            \A k \in DOMAIN cb[c] :
                /\ k % 2 = 0 => cb[c][k].dst \in {"SET0", "CLR0"}
                /\ k % 2 = 1 => cb[c][k].dst = OriginalFifo
                /\ cb[c][k].src \in DOMAIN sample[c]
                /\ cb[c][k].next \in DOMAIN cb[c]

\* get_cb: the byte offset of control block k in an arena of n samples
CbOffset(n, k) == 4 * n + 32 * k

\* the 32 bytes of control block k lie on two pages
CbStraddles(n, k) ==
    CbOffset(n, k) \div PAGE_SIZE # (CbOffset(n, k) + 31) \div PAGE_SIZE

\* C13: arena alignment.  For every accepted tick and subcycle time (a tick
\* of 10 us with subcycles of 3000 and 20000 us among them), the arena of an
\* initialised channel starts on a page boundary and none of its 32-byte
\* control blocks, which start at byte 4 * num_samples, straddles a 4096-byte
\* page boundary.
C13_ArenaAlignment ==
    \A c \in Channels :
        Initialised(c) =>
            \A k \in 0..(2 * channels[c].num_samples - 1) :
                ~CbStraddles(channels[c].num_samples, k)

\* add_channel_pulse: the indices i of the words dp + i it reads and writes
AddPulseSampleIdx(s, w) == {s, s + w} \cup (s + 1)..(s + w - 2)

\* add_channel_pulse: the indices k of the control blocks get_cb + k it writes
AddPulseCbIdx(s, w) == {2 * s, PulseEndCb(s, w)}

\* clear_channel and clear_channel_gpio: the sample indices of their loops
ClearSampleIdx(n) == 0..(n - 1)

\* clear_channel: the control blocks its first loop writes
ClearCbIdx(n) == {2 * i : i \in 0..(n - 1)}

\* C14: index bounds.  For every add_channel_pulse, clear_channel and
\* clear_channel_gpio call that passes its checks on an initialised channel,
\* whatever the integer arguments (zero and negative widths included), every
\* sample index read or written lies in 0 .. num_samples-1 and every
\* control-block index in 0 .. 2*num_samples-1.
C14_IndexBounds ==
    [][\A c \in Channels :
          Initialised(c) =>
              LET n == channels[c].num_samples IN
              /\ \A g \in Gpios, s \in WideStartArgs, w \in WideWidthArgs :
                    (AddChannelPulse(c, g, s, w) /\ ~WidthRejected(channels[c], s, w)) =>
                        /\ AddPulseSampleIdx(s, w) \subseteq 0..(n - 1)
                        /\ AddPulseCbIdx(s, w) \subseteq 0..(2 * n - 1)
              /\ (ClearChannel(c) \/ \E g \in Gpios : ClearChannelGpio(c, g)) =>
                    /\ ClearSampleIdx(n) \subseteq 0..(n - 1)
                    /\ ClearCbIdx(n) \subseteq 0..(2 * n - 1)]_vars

\* C15: num_samples >= 1.  For every tick and subcycle time that setup and
\* init_channel accept, a channel that counts as initialised
\* (is_channel_initialized) has num_samples = subcycle_time_us / tick >= 1, so
\* that width_max >= 0 and at least two control blocks exist: init_channel
\* never leaves a channel with zero samples.
C15_NumSamples ==
    \A c \in Channels :
        is_channel_initialized(c) = 1 =>
            /\ channels[c].num_samples >= 1
            /\ channels[c].width_max >= 0
            /\ 2 * channels[c].num_samples >= 2

EvenOnClr0(cbs) == \A k \in DOMAIN cbs : k % 2 = 0 => cbs[k].dst = "CLR0"

\* C17: order of clear_channel.  On an initialised channel clear_channel(c)
\* first returns every even control-block destination to CLR0, then waits
\* one subcycle with the samples as they were, and only afterwards zeroes
\* the samples; when it returns, every sample of c is zero and every even
\* control block targets CLR0, whatever pulses had been added.
C17_ClearOrder ==
    [][\A c \in Channels :
          Initialised(c) =>
              /\ ClearChannel(c) =>
                    /\ EvenOnClr0(cb'[c])
                    /\ sample' = sample
                    /\ pc' = "cc_wait"
              /\ (ClearChannelWait /\ cc_ch = c) =>
                    /\ EvenOnClr0(cb[c])
                    /\ cb' = cb
                    /\ sample' = sample
                    /\ pc' = "cc_zero"
              /\ (ClearChannelZero /\ cc_ch = c /\ cc_caller = "api") =>
                    /\ \A i \in DOMAIN sample'[c] : sample'[c][i] = {}
                    /\ DOMAIN sample'[c] = 0..(channels[c].num_samples - 1)
                    /\ EvenOnClr0(cb'[c])
                    /\ pc' = "idle"
                    /\ ret' = "EXIT_SUCCESS"]_vars

\* clear_channel, called by the user after a pulse, has rewritten the
\* destinations and waited, and has not yet zeroed the samples
C17_Witness ==
    /\ pc = "cc_zero"
    /\ cc_caller = "api"
    /\ Initialised(cc_ch)
    /\ EvenOnClr0(cb[cc_ch])
    /\ \E i \in DOMAIN sample[cc_ch] : sample[cc_ch][i] # {}

\* C18: idempotent add.  After add_channel_pulse(c, g, s, w) has returned
\* success on an initialised channel, the same call made again at once is
\* accepted again, finds g set up (so that init_gpio is not run and no GPIO
\* register is written), and its stores leave the samples and the control
\* blocks exactly as the first call left them.
C18_AddIdempotent ==
    [][(pc = "idle" /\ pc' = "idle" /\ ret' = "EXIT_SUCCESS") =>
          \A c \in Channels :
              Initialised(c) =>
                  \A g \in Gpios, s \in WideStartArgs, w \in WideWidthArgs :
                      (~WidthRejected(channels[c], s, w) /\ AddChannelPulse(c, g, s, w)) =>
                          /\ ~WidthRejected(channels'[c], s, w)
                          /\ g \in gpio_setup'
                          /\ AddPulseSamples(sample'[c], g, s, w) = sample'[c]
                          /\ AddPulseCbs(OrIntoCbs(cb'[c], channels'[c].num_samples, s),
                                         s, w) = cb'[c]]_vars

\* add_channel_pulse(0, 1, s, w) has returned success on a channel that
\* carried a pulse of GPIO 0 before: both GPIOs are set up, a sample holds
\* both bits, and a rising edge is in place
C18_Witness ==
    /\ Initialised(0)
    /\ pc = "idle"
    /\ ret = "EXIT_SUCCESS"
    /\ gpio_setup = {0, 1}
    /\ \E i \in DOMAIN sample[0] : sample[0][i] = {0, 1}
    /\ \E k \in DOMAIN cb[0] : cb[0][k].dst = "SET0"

\* C19: last writer wins on a shared tick.  When a successful
\* add_channel_pulse(c, g, s, w), w >= 1, puts its rising edge on a tick
\* where another GPIO has a falling edge (its bit in the sample, the even
\* control block on CLR0), that control block is on SET0 afterwards; when it
\* puts its falling edge on a tick where another GPIO has a rising edge (the
\* even control block on SET0), that control block is on CLR0 afterwards.
C19_LastWriterWins ==
    [][\A c \in Channels, g \in Gpios, s \in StartArgs, w \in WidthArgs :
          (AddSucceeds(c, g, s, w) /\ Initialised(c) /\ w >= 1) =>
              /\ (\E h \in Gpios \ {g} :
                     h \in sample[c][s] /\ cb[c][2 * s].dst = "CLR0")
                    => cb'[c][2 * s].dst = "SET0"
              /\ (\E h \in Gpios \ {g} :
                     h \in sample[c][s + w] /\ cb[c][2 * (s + w)].dst = "SET0")
                    => cb'[c][2 * (s + w)].dst = "CLR0"]_vars

\* every channel init_channel has set up is as a shutdown leaves it: the
\* engine reset, every even control block on CLR0, every sample word 0
AllReset ==
    \A c \in Channels :
        Initialised(c) =>
            /\ dma_cs[c] = "RESET"
            /\ dma_latch[c] = NoLatch
            /\ EvenOnClr0(cb[c])
            /\ sample[c] = ZeroSamples(channels[c].num_samples)

\* a shutdown the user called is under way
InUserShutdown ==
    /\ sd_then = "return"
    /\ \/ pc \in {"sd_loop", "sd_wait", "sd_reset"}
       \/ pc \in {"cc_wait", "cc_zero"} /\ cc_caller = "shutdown"

\* no line has a pin-mode entry
AllUnconfigured == \A g \in Lines : gpio_direction[g] = -1

\* C20: cleanup is idempotent in both facets.  PWM: when a shutdown the user
\* called returns, every initialised channel is reset with its even control
\* blocks on CLR0, and every step of a shutdown that starts from there (the
\* second of two in a row) changes no channel, control block, sample, engine
\* or pin and raises no error.  GPIO: cleanup puts every line that has a
\* pin-mode entry in input mode and its entry to unconfigured, raises
\* nothing, cleans a state that cleaning again would leave as it is, and
\* changes no line when no entry is left.
C20_CleanupIdempotent ==
    [][ /\ (pc = "sd_loop" /\ sd_then = "return" /\ pc' = "idle") => AllReset'
        /\ (InUserShutdown /\ AllReset) =>
              /\ UNCHANGED <<arenaVars, dmaVars, gpioVars, error_message,
                             stderr_msg, ret, exit_via, exit_status>>
              /\ pc' # "exited"
        /\ (pc = "idle" /\ pc' = "idle" /\ PyCleanup) =>
              /\ \A g \in Lines :
                    gpio_direction[g] # -1 => gpio_fsel'[g] = "IN"
              /\ AllUnconfigured'
              /\ py_err' = "none"
              /\ CleanupFsel(gpio_fsel', gpio_direction') = gpio_fsel'
              /\ CleanupPull(gpio_pull', gpio_direction') = gpio_pull'
              /\ CleanupDirection(gpio_direction') = gpio_direction'
              /\ AllUnconfigured =>
                    UNCHANGED <<gpio_fsel, gpio_pull, gpio_direction, gpio_level>>
      ]_vars

\* a second shutdown in a row is resetting the initialised channel 0 that the
\* first one has reset, and the GPIO facet has run cleanup twice in a row
\* after setting up an output
C20_Witness ==
    /\ pc = "sd_reset"
    /\ sd_then = "return"
    /\ Initialised(sd_i)
    /\ AllReset
    /\ py_calls = <<"cleanup", "cleanup">>
    /\ AllUnconfigured
    /\ gpio_level # {}
    /\ gpio_setup = {}

\* a call fails through fatal(msg): with soft_fatal the message is stored and
\* EXIT_FAILURE returned, without it the message is printed and the fatal
\* exit with EXIT_FAILURE is taken
FailsWith(msg) ==
    IF soft_fatal # 0
    THEN /\ pc' = "idle"
         /\ ret' = "EXIT_FAILURE"
         /\ error_message' = msg
    ELSE /\ stderr_msg' = msg
         /\ pc' = "sd_loop"
         /\ sd_then' = "EXIT_FAILURE"

\* C21: nothing before setup.  init_channel called while the setup latch is
\* clear fails with not-setup and changes no channel, arena, DMA or GPIO
\* register; in every state a channel counts as initialised only if the latch
\* is set; and add_channel_pulse, clear_channel and clear_channel_gpio called
\* while the latch is clear fail and change no arena and no register.
C21_NothingBeforeSetup ==
    [][/\ \A c \in Channels : is_channel_initialized(c) = 1 => _is_setup = 1
       /\ \A c \in Channels : is_channel_initialized(c)' = 1 => _is_setup' = 1
       /\ (pc = "idle" /\ _is_setup = 0) =>
            /\ \A c \in Channels \cup {DMA_CHANNELS}, t \in SubcycleArgs, env \in ChannelEnvs :
                  InitChannel(c, t, env) =>
                      /\ FailsWith("not_setup")
                      /\ UNCHANGED <<libVars, arenaVars, dmaVars, gpioVars>>
            /\ \A c \in Channels :
                  \/ \E g \in Gpios, s \in StartArgs, w \in WidthArgs :
                        AddChannelPulse(c, g, s, w)
                  \/ \E g \in Gpios : ClearChannelGpio(c, g)
                  \/ ClearChannel(c)
                  => /\ FailsWith("uninitialized")
                     /\ UNCHANGED <<libVars, arenaVars, dmaVars, gpioVars>>]_vars

\* init_channel was called before any successful setup and refused: the
\* latch is clear and no channel is initialised
C21_Witness ==
    /\ _is_setup = 0
    /\ error_message = "not_setup"
    /\ ret = "EXIT_FAILURE"
    /\ pc = "idle"
    /\ \A c \in Channels : is_channel_initialized(c) = 0

\* C22: channel-number validity, for the two operations that test the number.
\* print_channel with a number outside 0..14, and init_channel with one after
\* setup, fail with invalid-channel and leave the channels alone.
C22_ChannelValidity ==
    [][pc = "idle" =>
         \A c \in WildChannels :
            /\ PrintChannel(c) =>
                  FailsWith("invalid_channel") /\ UNCHANGED arenaVars
            /\ \A t \in SubcycleArgs, env \in ChannelEnvs :
                  (c > 0 /\ _is_setup = 1 /\ InitChannel(c, t, env)) =>
                      FailsWith("invalid_channel") /\ UNCHANGED arenaVars]_vars

C24_ReplaceableAfterClear ==
    [][/\ (pc = "cc_zero" /\ cc_caller = "api" /\ pc' = "idle" /\ Initialised(cc_ch)) =>
             ~HasVirtbase(channels'[cc_ch])
       /\ (pc = "sd_loop" /\ sd_then = "return" /\ pc' = "idle") =>
             \A c \in Channels :
                /\ is_channel_initialized(c)' = 0
                /\ ~HasVirtbase(channels'[c])]_vars

C26_PwmGpiosAreOutputs ==
    [][/\ \A c \in Channels, g \in Gpios :
             (\E i \in DOMAIN sample'[c] : g \in sample'[c][i]) =>
                 g \in gpio_setup' /\ gpio_fsel'[g] = "OUT"
       /\ \A g \in gpio_setup' \ gpio_setup :
             g \notin gpio_level' /\ gpio_fsel'[g] = "OUT"]_vars

\* the positions of the P1 header
HeaderPins == 1..26

\* C27: numbering round trip.  On the board's revision every valid position p
\* of the P1 header (board_to_bcm(p) is not -1) is the position of its own BCM
\* line, bcm_to_board(board_to_bcm(p)) = p, and no two valid positions share
\* a BCM line.
C27_NumberingRoundTrip ==
    /\ \A p \in HeaderPins :
          board_to_bcm(p) # -1 => bcm_to_board(board_to_bcm(p)) = p
    /\ \A p, q \in HeaderPins :
          (board_to_bcm(p) # -1 /\ board_to_bcm(p) = board_to_bcm(q)) => p = q

\* C28: cleanup completeness.  When cleanup() returns, every line that a
\* successful setup call of this process has configured, at any time before,
\* has its function select on input and its pin-mode entry unconfigured; the
\* function select, pull and pin-mode entry of every line never configured
\* by the process are as before, and no level is written.
C28_CleanupCompleteness ==
    [][(pc = "idle" /\ py_calls' # py_calls /\ PyCleanup) =>
          /\ \A g \in py_configured :
                gpio_fsel'[g] = "IN" /\ gpio_direction'[g] = -1
          /\ \A g \in Lines \ py_configured :
                /\ gpio_fsel'[g] = gpio_fsel[g]
                /\ gpio_pull'[g] = gpio_pull[g]
                /\ gpio_direction'[g] = gpio_direction[g]
          /\ gpio_level' = gpio_level]_vars

\* cleanup() has returned after setup had made a line an output with a high
\* initial level: the line is an input again and no entry is left
C28_Witness ==
    /\ py_calls = <<"setup", "cleanup">>
    /\ py_configured # {}
    /\ \A g \in py_configured : gpio_fsel[g] = "IN" /\ g \in gpio_level
    /\ AllUnconfigured

\* C29: pin release on exit.  When the interpreter exits through the handler
\* the GPIO module registered, every line the process configured through
\* setup is on input.
C29_PinReleaseOnExit ==
    [][(pc = "idle" /\ pc' = "exited" /\ exit_via' = "atexit") =>
          \A g \in py_configured : gpio_fsel'[g] = "IN"]_vars

\* C30: the pin-mode table changes only in setup and cleanup.  A setup call
\* that succeeds writes its direction into the entry of the BCM line its
\* channel translates to and into no other; a setup call that fails writes
\* none; cleanup leaves every entry unconfigured; and a step that is neither
\* of the two (output, input, force_output, force_input, set_pullupdn,
\* gpio_function, setmode, setwarnings, the exit) leaves all 54 entries as
\* they are.
C30_PinModeFrame ==
    [][/\ DOMAIN gpio_direction' = Lines
       /\ pc = "idle" =>
            /\ \A channel \in PyChannelArgs, direction \in PyDirectionArgs,
                  pud \in PyPudArgs, initial \in PyInitialArgs :
                  (py_calls' # <<>> /\ PySetupChannel(channel, direction, pud, initial)) =>
                     IF py_err' = "none"
                     THEN /\ channel_to_gpio(channel) \in Lines
                          /\ gpio_direction'[channel_to_gpio(channel)] = direction
                          /\ \A g \in Lines \ {channel_to_gpio(channel)} :
                                gpio_direction'[g] = gpio_direction[g]
                     ELSE gpio_direction' = gpio_direction
            /\ PyCleanup => \A g \in Lines : gpio_direction'[g] = -1
       /\ gpio_direction' # gpio_direction =>
            /\ pc = "idle"
            /\ py_calls' # <<>>
            /\ py_calls'[Len(py_calls')] \in {"setup", "cleanup"}]_vars

\* output has been called, with success, after the setup of an output: the
\* table holds that one entry
C30_Witness ==
    /\ py_calls = <<"setup", "output">>
    /\ py_err = "none"
    /\ \E g \in Lines :
          /\ gpio_direction[g] = OUTPUT
          /\ \A h \in Lines \ {g} : gpio_direction[h] = -1

\* the error kind of the first failing step of the chain mode-is-set, range,
\* translation, pin-mode recorded; "none" if no step fails
InputChain(channel) ==
    LET gpio == channel_to_gpio(channel)
    IN  IF gpio = -1 THEN "ModeNotSetException"
        ELSE IF gpio < 0 THEN "InvalidChannelException"
        ELSE IF gpio_direction[gpio] # INPUT /\ gpio_direction[gpio] # OUTPUT
        THEN "WrongDirectionException"
        ELSE "none"

\* C31: the verify_input chain.  input(channel) fails with the error kind of
\* the first failing step of the chain (mode-not-set, invalid-channel for a
\* channel out of range, invalid-channel for one without a BCM line,
\* wrong-direction for a line without a recorded direction) and succeeds
\* only if the table records input or output for the translated line.
C31_InputChain ==
    [][pc = "idle" =>
         \A channel \in PyChannelArgs, junk \in PyJunkArgs :
            (py_calls' # <<>> /\ PyInputGpio(channel, junk)) =>
                py_err' = InputChain(channel)]_vars

\* C32: wrong-direction writes are rejected.  output(channel, level) on a
\* line whose pin-mode entry is not output (input, or unconfigured, as after
\* cleanup) fails with wrong-direction and leaves the level of every line
\* as it was (neither SET nor CLR is written); output succeeds only on a line
\* whose entry is output, an entry becomes output only by a successful
\* setup(channel, output) for that line, and no entry is output after cleanup.
C32_WrongDirectionRejected ==
    [][pc = "idle" =>
         /\ \A channel \in PyChannelArgs, value \in PyValueArgs :
               (py_calls' # <<>> /\ PyOutputGpio(channel, value)) =>
                   LET gpio == channel_to_gpio(channel)
                   IN  /\ (gpio >= 0 /\ gpio_direction[gpio] # OUTPUT) =>
                             /\ py_err' = "WrongDirectionException"
                             /\ gpio_level' = gpio_level
                       /\ py_err' = "none" =>
                             gpio >= 0 /\ gpio_direction[gpio] = OUTPUT
         /\ \A g \in Lines :
               (gpio_direction[g] # OUTPUT /\ gpio_direction'[g] = OUTPUT) =>
                   /\ py_err' = "none"
                   /\ \E channel \in PyChannelArgs, pud \in PyPudArgs,
                         initial \in PyInitialArgs :
                         /\ channel_to_gpio(channel) = g
                         /\ PySetupChannel(channel, OUTPUT, pud, initial)
         /\ PyCleanup => \A g \in Lines : gpio_direction'[g] # OUTPUT]_vars

\* output has just been refused, right after the setup of an input or right
\* after cleanup
C32_Witness ==
    /\ py_err = "WrongDirectionException"
    /\ \/ /\ py_calls = <<"setup", "output">>
          /\ \E g \in Lines : gpio_direction[g] = INPUT
       \/ py_calls = <<"cleanup", "output">>

\* C33: GPIO peripheral mapping failures are reported.  setup() returns the
\* device-access failure when /dev/mem cannot be opened and the mmap failure
\* when the mapping is rejected, and module_setup never returns OK with a
\* gpio_map that is not the mapped register window.
C33_MappingFailuresReported ==
    [][\A env \in ImportEnvs :
          (module_result = "none" /\ ModuleSetup(env)) =>
              /\ env = "devmem_fail" => setup(env)[1] = "SETUP_DEVMEM_FAIL"
              /\ env = "mmap_fail" => setup(env)[1] = "SETUP_MMAP_FAIL"
              /\ module_result' = "SETUP_OK" => gpio_map' = "MAPPED"]_vars

\* C34: a failed init_channel leaves the channel uninitialised.  In
\* soft-fatal mode, when init_channel(c, ..) on a free channel of a set-up
\* library returns failure because the arena cannot be mapped, the pagemap
\* cannot be read or the DMA registers cannot be mapped, afterwards
\* is_channel_initialized(c) reports 0, the channel has no arena (which is
\* what makes add_channel_pulse and clear_channel fail with uninitialized),
\* and no DMA register of c was written.
C34_FailedInitLeavesUninitialised ==
    [][(pc = "idle" /\ soft_fatal = 1 /\ _is_setup = 1 /\ ret' = "EXIT_FAILURE") =>
         \A c \in Channels :
            channels[c].virtbase = "NULL" =>
               \A t \in SubcycleArgs, env \in ChannelEnvs \ {"ok"} :
                  (InitChannel(c, t, env) /\ ~SubcycleTooSmall(t)) =>
                     /\ channels'[c].virtbase = "NULL"
                     /\ dma_cs'[c] = dma_cs[c]
                     /\ dma_at'[c] = dma_at[c]]_vars

\* C35: the frame of add_channel_pulse on the control blocks.  A successful
\* add_channel_pulse(c, g, s, w) changes the destination of no control block
\* other than those of tick s and tick s + w; a rising edge (SET0) that an
\* earlier pulse placed on another tick is still SET0 afterwards.
C35_EdgeFrame ==
    [][(pc = "idle" /\ ret' = "EXIT_SUCCESS") =>
         \A c \in {0}, g \in Gpios, s \in EdgeStartArgs, w \in EdgeWidthArgs :
            AddSucceeds(c, g, s, w) =>
               \A k \in DOMAIN cb[c] :
                  (k # 2 * s /\ k # 2 * (s + w)) =>
                      cb'[c][k].dst = cb[c][k].dst]_vars

C37_ClearRace ==
    [][pc = "idle" =>
         \A g \in Gpios :
            /\ (ClearChannelGpio(0, g) /\ ret' = "EXIT_SUCCESS") => g \notin gpio_level'
            /\ (/\ g \in gpio_setup
                /\ \A i \in DOMAIN sample[0] : g \notin sample[0][i]
                /\ g \notin gpio_level
                /\ DmaWrite(0)) => g \notin gpio_level']_vars

\* the write that starts the engine
GoStore == [reg |-> "CS", val |-> "0x10880001", k |-> 0]

\* C38: DMA is started only on a complete program.  init_channel writes the
\* channel's DMA registers in the order CS = DMA_RESET, CS = DMA_INT|DMA_END,
\* CONBLK_AD = bus address of control block 0, DEBUG = 7, CS = 0x10880001, and
\* the last of these, the go write, comes after the stores of all
\* 2*num_samples control blocks and of the link from the last one back to the
\* first; an engine that runs has been started by such a sequence.
C38_StartOnCompleteProgram ==
    \A c \in Channels :
       LET L == dma_stores[c]
           n == channels[c].num_samples
       IN  /\ dma_cs[c] = "ACTIVE" => (L # <<>> /\ L[Len(L)] = GoStore)
           /\ \A i \in DOMAIN L :
                 L[i] = GoStore =>
                    /\ i = 2 * n + 6
                    /\ SubSeq(L, 2 * n + 2, 2 * n + 6) = RegStores
                    /\ \A k \in 0..(2 * n - 1) :
                          L[k + 1] = [reg |-> "CB", val |-> "block", k |-> k]
                    /\ L[2 * n + 1] = [reg |-> "CB", val |-> "next", k |-> 2 * n - 1]
                    /\ DOMAIN cb[c] = 0..(2 * n - 1)

\* the engine of a channel of four samples runs: eight control blocks and
\* the link were stored before the five register writes
C38_Witness ==
    \E c \in Channels :
       /\ dma_cs[c] = "ACTIVE"
       /\ channels[c].num_samples = 4
       /\ Len(dma_stores[c]) = 14
       /\ cb[c][7].next = 0

\* C39: the initial channel state.  Right after a successful
\* init_channel(c, subcycle_us), num_samples is subcycle_us div the tick, the
\* program has exactly 2 * num_samples control blocks, each of the
\* num_samples sample words is zero and every even control block has the
\* destination CLR0, so that a traversal of the program by the engine raises
\* no line.
C39_InitialChannelState ==
    [][(pc = "idle" /\ pc' = "idle" /\ ret' = "EXIT_SUCCESS") =>
         \A c \in Channels :
            channels[c].virtbase = "NULL" =>
               \A t \in SubcycleArgs, env \in ChannelEnvs :
                  InitChannel(c, t, env) =>
                     LET n == channels'[c].num_samples
                     IN  /\ n = t \div pulse_width_incr_us
                         /\ DOMAIN cb'[c] = 0..(2 * n - 1)
                         /\ DOMAIN sample'[c] = 0..(n - 1)
                         /\ \A i \in 0..(n - 1) : sample'[c][i] = {}
                         /\ \A k \in 0..(2 * n - 1) :
                               k % 2 = 0 => cb'[c][k].dst = "CLR0"
                         /\ dma_cs'[c] = "ACTIVE"
                         /\ \A i \in 1..n :
                               RunTicks(sample'[c], cb'[c], 0, gpio_level, i).level
                                   \subseteq gpio_level]_vars

\* init_channel has just returned success for channel 1: four samples, eight
\* control blocks, the engine running
C39_Witness ==
    /\ pc = "idle"
    /\ ret = "EXIT_SUCCESS"
    /\ channels[1].num_samples = 4
    /\ DOMAIN cb[1] = 0..7
    /\ dma_cs[1] = "ACTIVE"
    /\ Fresh(1)
    /\ channels[0].virtbase = "NULL"

\* C40: a rejected setmode leaves the numbering mode unchanged.  setmode(m)
\* with m neither BOARD nor BCM fails with invalid-mode, and every channel
\* translates afterwards as it did before the call, that is, under the mode
\* of the last successful setmode.
C40_RejectedSetmodeKeepsMode ==
    [][pc = "idle" =>
         \A mode \in PyModeArgs :
            (py_calls' # <<>> /\ SetMode(mode) /\ mode # BOARD /\ mode # BCM) =>
                /\ py_err' = "InvalidModeException"
                /\ \A channel \in PyChannelArgs :
                      channel_to_gpio(channel)' = channel_to_gpio(channel)]_vars

====
